---- MODULE Spec2Model ----
(***************************************************************************)
(* Model of summarizer_api.py (ToSDigest): the paragraph partitioner       *)
(* chunk_text and the /summarize request handler with its one-shot,        *)
(* per-chunk (retry once on rate limit) and reduction calls.               *)
(*                                                                         *)
(* Strings are sequences of one-character strings.  The two size limits    *)
(* of the program are scaled down (80000 -> 5, 15000 -> 4) so that texts   *)
(* on both sides of each limit are enumerable; their order                 *)
(* (MAX_CHARS < ONE_SHOT_THRESHOLD) is kept.                               *)
(***************************************************************************)
EXTENDS Integers, Sequences, FiniteSets, TLC

\* ---------------------------------------------------------------- bounds
MaxLen == 7
MaxMaxChars == 5

\* ------------------------------------------------------ program constants
ONE_SHOT_THRESHOLD == 5
MAX_CHARS == 4
BACKOFF_SECONDS == 20
RETRY_RANGE == 2

VARIABLES
  data,             \* the decoded request body (request.get_json())
  pc,               \* position of the handler
  text,             \* local `text`
  chunks,           \* local `chunks`
  chunk_summaries,  \* local `chunk_summaries`
  idx,              \* index of the enumerate loop, from 1
  attempt,          \* index of the retry loop, from 0
  log,              \* what the handler did to the outside: calls, returns, sleeps
  response,         \* the (body, status) returned by the handler
  ct_pc, ct_text, ct_max, ct_result,  \* a stand-alone application of chunk_text
  ct_paras, ct_i, ct_chunks, ct_current   \* its locals when run statement by statement

vars == <<data, pc, text, chunks, chunk_summaries, idx, attempt, log, response,
          ct_pc, ct_text, ct_max, ct_result, ct_paras, ct_i, ct_chunks, ct_current>>

sumVars == <<data, pc, text, chunks, chunk_summaries, idx, attempt, log, response>>
ctLocals == <<ct_paras, ct_i, ct_chunks, ct_current>>
ctVars == <<ct_pc, ct_text, ct_max, ct_result, ctLocals>>

NL == "\n"
Alphabet == {"a", NL}
Whitespace == {" ", NL}
Delim == <<NL, NL>>

\* ------------------------------------------------------------ str helpers
SeqsUpTo(S, n) == UNION {[1..k -> S] : k \in 0..n}

\* index of the first occurrence of sub in s, 0 when absent (str.find + 1)
Find(s, sub) ==
  LET hits == {i \in 1..(Len(s) - Len(sub) + 1) :
                 SubSeq(s, i, i + Len(sub) - 1) = sub}
  IN IF hits = {} THEN 0 ELSE CHOOSE i \in hits : \A j \in hits : i <= j

Contains(s, sub) == Find(s, sub) > 0

\* str.lower() on the letters that occur in the modelled messages
LowerChar(c) ==
  CASE c = "R" -> "r" [] c = "A" -> "a" [] c = "T" -> "t" [] c = "E" -> "e"
    [] c = "L" -> "l" [] c = "I" -> "i" [] c = "M" -> "m"
    [] OTHER -> c

Lower(s) == [i \in 1..Len(s) |-> LowerChar(s[i])]

RECURSIVE LStrip(_)
LStrip(s) == IF s # <<>> /\ Head(s) \in Whitespace THEN LStrip(Tail(s)) ELSE s

RECURSIVE RStrip(_)
RStrip(s) ==
  IF s # <<>> /\ s[Len(s)] \in Whitespace
    THEN RStrip(SubSeq(s, 1, Len(s) - 1)) ELSE s

\* str.strip()
Strip_LeftOnly(s) == LStrip(s)
Strip(s) == RStrip(LStrip(s))

\* text.split("\n\n"): leftmost, non-overlapping delimiters
RECURSIVE Split(_)
Split(t) ==
  LET i == Find(t, Delim)
  IN IF i = 0 THEN <<t>>
     ELSE <<SubSeq(t, 1, i - 1)>> \o Split(SubSeq(t, i + 2, Len(t)))

\* "\n\n".join(parts)
RECURSIVE Join(_)
Join(parts) ==
  IF parts = <<>> THEN <<>>
  ELSE IF Len(parts) = 1 THEN parts[1]
  ELSE parts[1] \o Delim \o Join(Tail(parts))

\* ------------------------------------------------------------- chunk_text
\* the test of line 35
Fits_NoDelim(current, p, max_chars) == Len(current) + Len(p) <= max_chars
Fits(current, p, max_chars) == Len(current) + Len(p) + 2 <= max_chars

\* line 36: a falsy (empty) buffer is replaced, otherwise extended
Extend(current, p) == IF current # <<>> THEN current \o Delim \o p ELSE p

\* the for loop of lines 33-40 from paragraph i on, then the flush 41-43
RECURSIVE ChunkLoop(_, _, _, _, _)
ChunkLoop(paras, i, acc, current, max_chars) ==
  IF i > Len(paras)
    THEN IF current # <<>> THEN Append(acc, current) ELSE acc
  ELSE IF Fits(current, paras[i], max_chars)
    THEN ChunkLoop(paras, i + 1, acc, Extend(current, paras[i]), max_chars)
  ELSE ChunkLoop(paras, i + 1, Append(acc, current), paras[i], max_chars)

chunk_text(t, max_chars) == ChunkLoop(Split(t), 1, <<>>, <<>>, max_chars)

\* --------------------------------------------------------- the outside world
\* message.content values the service may answer with
Contents == { <<"x">>, <<" ", "y", NL>> }

\* str(e) of the exceptions the client may raise
MsgRateLimit == <<"R", "a", "t", "e", " ", "l", "i", "m", "i", "t">>
MsgRATELIMIT == <<"4", "2", "9", " ", "R", "A", "T", "E", " ", "L", "I", "M", "I", "T">>
MsgTimeout   == <<"t", "i", "m", "e", "o", "u", "t">>
MsgRateDash  == <<"r", "a", "t", "e", "-", "l", "i", "m", "i", "t">>
Messages == {MsgRateLimit, MsgRATELIMIT, MsgTimeout, MsgRateDash}

RateLimitIndicator == <<"r", "a", "t", "e", " ", "l", "i", "m", "i", "t">>
NoTextProvided ==
  <<"N", "o", " ", "t", "e", "x", "t", " ", "p", "r", "o", "v", "i", "d", "e", "d">>

\* "rate limit" in m.lower()   (lines 142, 171, 174)
IsRateLimit(m) == Contains(Lower(m), RateLimitIndicator)

\* code = 429 if "rate limit" in msg.lower() else 500   (lines 142, 174)
StatusFor(m) == IF IsRateLimit(m) THEN 429 ELSE 500

\* line 200: the reduction handler returns 500 whatever the message
ReduceStatusFor(m) == 500

\* line 171
ShouldRetry_AnyAttempt(m, att) == IsRateLimit(m)
ShouldRetry_AnyFailure(m, att) == att = 0
ShouldRetry(m, att) == IsRateLimit(m) /\ att = 0

\* line 115: `not text`
IsMissing_Never(t) == FALSE
IsMissing(t) == t = <<>>

\* line 119
IsOneShot_Strict(t) == Len(t) < ONE_SHOT_THRESHOLD
IsOneShot(t) == Len(t) <= ONE_SHOT_THRESHOLD

\* ------------------------------------------------------------- log entries
NoSeq == <<>>
CallEv(site, i, att, total, arg) ==
  [ev |-> "call", site |-> site, idx |-> i, attempt |-> att, total |-> total,
   arg |-> arg, ok |-> FALSE, val |-> NoSeq, secs |-> 0]
RetEv(site, i, att, ok, val) ==
  [ev |-> "return", site |-> site, idx |-> i, attempt |-> att, total |-> 0,
   arg |-> NoSeq, ok |-> ok, val |-> val, secs |-> 0]
SleepEv(i, att, secs) ==
  [ev |-> "sleep", site |-> "chunk", idx |-> i, attempt |-> att, total |-> 0,
   arg |-> NoSeq, ok |-> FALSE, val |-> NoSeq, secs |-> secs]
PartitionEv(arg) ==
  [ev |-> "chunk_text", site |-> "none", idx |-> 0, attempt |-> 0, total |-> 0,
   arg |-> arg, ok |-> FALSE, val |-> NoSeq, secs |-> 0]

NoResponse == [status |-> 0, key |-> "none", val |-> NoSeq]
Summary(s) == [status |-> 200, key |-> "summary", val |-> s]
Error(m, code) == [status |-> code, key |-> "error", val |-> m]

\* ------------------------------------------------------------ the requests
Requests ==
  {[body |-> "null", hasText |-> FALSE, text |-> NoSeq],
   [body |-> "object", hasText |-> FALSE, text |-> NoSeq]}
  \cup {[body |-> "object", hasText |-> TRUE, text |-> t] :
           t \in SeqsUpTo(Alphabet, MaxLen)}

\* data = request.get_json() or {};  text = data.get("text", "")   (113-114)
GetText(d) == IF d.body = "object" /\ d.hasText THEN d.text ELSE <<>>

ctLocalsInit == ct_paras = <<>> /\ ct_i = 0 /\ ct_chunks = <<>> /\ ct_current = <<>>

ctIdle ==
  /\ ct_pc = "idle" /\ ct_text = <<>> /\ ct_max = 0 /\ ct_result = <<>>
  /\ ctLocalsInit

Init ==
  /\ data \in Requests
  /\ pc = "start"
  /\ text = <<>>
  /\ chunks = <<>>
  /\ chunk_summaries = <<>>
  /\ idx = 0
  /\ attempt = 0
  /\ log = <<>>
  /\ response = NoResponse
  /\ ctIdle

Finish(r) == response' = r /\ pc' = "done"

\* lines 113-116
Validate ==
  /\ pc = "start"
  /\ text' = GetText(data)
  /\ IF IsMissing(text')
       THEN Finish(Error(NoTextProvided, 400))
       ELSE pc' = "route" /\ UNCHANGED response
  /\ UNCHANGED <<data, chunks, chunk_summaries, idx, attempt, log, ctVars>>

\* lines 119-135: the one-shot request is sent
OneShotIssue ==
  /\ pc = "route"
  /\ IsOneShot(text)
  /\ log' = Append(log, CallEv("oneshot", 0, 0, 0, text))
  /\ pc' = "oneshot_wait"
  /\ UNCHANGED <<data, text, chunks, chunk_summaries, idx, attempt, response, ctVars>>

\* lines 136-143: the one-shot request answers or raises
OneShotReturn_Retry ==
  /\ pc = "oneshot_wait"
  /\ \/ \E c \in Contents :
          /\ log' = Append(log, RetEv("oneshot", 0, 0, TRUE, c))
          /\ Finish(Summary(Strip(c)))
     \/ \E m \in Messages :
          /\ log' = Append(log, RetEv("oneshot", 0, 0, FALSE, m))
          /\ IF IsRateLimit(m) /\ Len(log) < 2
               THEN pc' = "route" /\ UNCHANGED response
               ELSE Finish(Error(m, StatusFor(m)))
  /\ UNCHANGED <<data, text, chunks, chunk_summaries, idx, attempt, ctVars>>
OneShotReturn ==
  /\ pc = "oneshot_wait"
  /\ \/ \E c \in Contents :
          /\ log' = Append(log, RetEv("oneshot", 0, 0, TRUE, c))
          /\ Finish(Summary(Strip(c)))
     \/ \E m \in Messages :
          /\ log' = Append(log, RetEv("oneshot", 0, 0, FALSE, m))
          /\ Finish(Error(m, StatusFor(m)))
  /\ UNCHANGED <<data, text, chunks, chunk_summaries, idx, attempt, ctVars>>

\* lines 146-147 and the entry of the loop of line 149
Partition ==
  /\ pc = "route"
  /\ ~IsOneShot(text)
  /\ chunks' = chunk_text(text, MAX_CHARS)
  /\ chunk_summaries' = <<>>
  /\ idx' = 1
  /\ attempt' = 0
  /\ log' = Append(log, PartitionEv(text))
  /\ pc' = "loop"
  /\ UNCHANGED <<data, text, response, ctVars>>

\* lines 149-165: the request for chunk idx, attempt `attempt`, is sent
ChunkIssue ==
  /\ pc = "loop"
  /\ idx <= Len(chunks)
  /\ attempt < RETRY_RANGE
  /\ log' = Append(log, CallEv("chunk", idx, attempt, Len(chunks), chunks[idx]))
  /\ pc' = "chunk_wait"
  /\ UNCHANGED <<data, text, chunks, chunk_summaries, idx, attempt, response, ctVars>>

\* lines 166-167: the chunk request answered
ChunkSuccess_KeepAttempt(c) ==
  /\ log' = Append(log, RetEv("chunk", idx, attempt, TRUE, c))
  /\ chunk_summaries' = Append(chunk_summaries, Strip(c))
  /\ idx' = idx + 1
  /\ attempt' = attempt
  /\ pc' = "loop"
  /\ UNCHANGED response
ChunkSuccess_Prepend(c) ==
  /\ log' = Append(log, RetEv("chunk", idx, attempt, TRUE, c))
  /\ chunk_summaries' = <<Strip(c)>> \o chunk_summaries
  /\ idx' = idx + 1
  /\ attempt' = 0
  /\ pc' = "loop"
  /\ UNCHANGED response
ChunkSuccess(c) ==
  /\ log' = Append(log, RetEv("chunk", idx, attempt, TRUE, c))
  /\ chunk_summaries' = Append(chunk_summaries, Strip(c))
  /\ idx' = idx + 1
  /\ attempt' = 0
  /\ pc' = "loop"
  /\ UNCHANGED response

\* lines 169-175: the chunk request raised
ChunkFailure_FirstError(m) ==
  /\ log' = Append(log, RetEv("chunk", idx, attempt, FALSE, m))
  /\ IF ShouldRetry(m, attempt)
       THEN pc' = "sleeping" /\ UNCHANGED response
       ELSE IF attempt > 0
         THEN Finish(Error(log[Len(log) - 2].val, StatusFor(log[Len(log) - 2].val)))
         ELSE Finish(Error(m, StatusFor(m)))
  /\ UNCHANGED <<chunk_summaries, idx, attempt>>
ChunkFailure_Skip(m) ==
  /\ log' = Append(log, RetEv("chunk", idx, attempt, FALSE, m))
  /\ IF ShouldRetry(m, attempt)
       THEN pc' = "sleeping" /\ UNCHANGED <<idx, attempt>>
       ELSE pc' = "loop" /\ idx' = idx + 1 /\ attempt' = 0
  /\ UNCHANGED <<chunk_summaries, response>>
ChunkFailure(m) ==
  /\ log' = Append(log, RetEv("chunk", idx, attempt, FALSE, m))
  /\ IF ShouldRetry(m, attempt)
       THEN pc' = "sleeping" /\ UNCHANGED response
       ELSE Finish(Error(m, StatusFor(m)))
  /\ UNCHANGED <<chunk_summaries, idx, attempt>>

ChunkReturn ==
  /\ pc = "chunk_wait"
  /\ \/ \E c \in Contents : ChunkSuccess(c)
     \/ \E m \in Messages : ChunkFailure(m)
  /\ UNCHANGED <<data, text, chunks, ctVars>>

\* lines 172-173: time.sleep(20) ends, `continue` takes the next attempt of
\* range(2); a range that is used up leaves the retry loop for the next chunk
WakeUp ==
  /\ pc = "sleeping"
  /\ log' = Append(log, SleepEv(idx, attempt, BACKOFF_SECONDS))
  /\ IF attempt + 1 < RETRY_RANGE
       THEN attempt' = attempt + 1 /\ UNCHANGED idx
       ELSE attempt' = 0 /\ idx' = idx + 1
  /\ pc' = "loop"
  /\ UNCHANGED <<data, text, chunks, chunk_summaries, response, ctVars>>

\* lines 178-195: the loop is over, the reduction request is sent
ReduceIssue_Early ==
  /\ pc = "loop"
  /\ idx >= Len(chunks)
  /\ log' = Append(log, CallEv("reduce", 0, 0, 0, Join(chunk_summaries)))
  /\ pc' = "reduce_wait"
  /\ UNCHANGED <<data, text, chunks, chunk_summaries, idx, attempt, response, ctVars>>
ReduceIssue ==
  /\ pc = "loop"
  /\ idx > Len(chunks)
  /\ log' = Append(log, CallEv("reduce", 0, 0, 0, Join(chunk_summaries)))
  /\ pc' = "reduce_wait"
  /\ UNCHANGED <<data, text, chunks, chunk_summaries, idx, attempt, response, ctVars>>

\* lines 196-200: the reduction request answers or raises
ReduceReturn ==
  /\ pc = "reduce_wait"
  /\ \/ \E c \in Contents :
          /\ log' = Append(log, RetEv("reduce", 0, 0, TRUE, c))
          /\ Finish(Summary(Strip(c)))
     \/ \E m \in Messages :
          /\ log' = Append(log, RetEv("reduce", 0, 0, FALSE, m))
          /\ Finish(Error(m, ReduceStatusFor(m)))
  /\ UNCHANGED <<data, text, chunks, chunk_summaries, idx, attempt, ctVars>>

Next ==
  \/ Validate
  \/ OneShotIssue
  \/ OneShotReturn
  \/ Partition
  \/ ChunkIssue
  \/ ChunkReturn
  \/ WakeUp
  \/ ReduceIssue
  \/ ReduceReturn

Spec == Init /\ [][Next]_vars

\* ------------------------------------- chunk_text applied on its own inputs
sumIdle ==
  /\ data = [body |-> "null", hasText |-> FALSE, text |-> NoSeq]
  /\ pc = "idle" /\ text = <<>> /\ chunks = <<>> /\ chunk_summaries = <<>>
  /\ idx = 0 /\ attempt = 0 /\ log = <<>> /\ response = NoResponse

InitChunk ==
  /\ sumIdle
  /\ ct_pc = "call"
  /\ ct_text \in SeqsUpTo(Alphabet, MaxLen)
  /\ ct_max \in 0..MaxMaxChars
  /\ ct_result = <<>>
  /\ ctLocalsInit

ChunkTextCall ==
  /\ ct_pc = "call"
  /\ ct_result' = chunk_text(ct_text, ct_max)
  /\ ct_pc' = "returned"
  /\ UNCHANGED <<ct_text, ct_max, ctLocals, sumVars>>

NextChunk == ChunkTextCall

SpecChunk == InitChunk /\ [][NextChunk]_vars

\* ------------------------ chunk_text run statement by statement (termination)
\* lines 31-32
CtSplit ==
  /\ ct_pc = "call"
  /\ ct_paras' = Split(ct_text)
  /\ ct_chunks' = <<>>
  /\ ct_current' = <<>>
  /\ ct_i' = 1
  /\ ct_pc' = "for"
  /\ UNCHANGED <<ct_text, ct_max, ct_result, sumVars>>

\* lines 33-40: one turn of `for p in paras`
CtIterate_Reflush ==
  /\ ct_pc = "for"
  /\ ct_i <= Len(ct_paras)
  /\ IF Fits(ct_current, ct_paras[ct_i], ct_max)
       THEN /\ ct_current' = Extend(ct_current, ct_paras[ct_i])
            /\ ct_i' = ct_i + 1
            /\ UNCHANGED ct_chunks
       ELSE /\ ct_chunks' = IF ct_current # <<>> THEN Append(ct_chunks, ct_current)
                                                ELSE ct_chunks
            /\ ct_current' = <<>>
            /\ UNCHANGED ct_i
  /\ UNCHANGED <<ct_pc, ct_paras, ct_text, ct_max, ct_result, sumVars>>
CtIterate ==
  /\ ct_pc = "for"
  /\ ct_i <= Len(ct_paras)
  /\ IF Fits(ct_current, ct_paras[ct_i], ct_max)
       THEN /\ ct_current' = Extend(ct_current, ct_paras[ct_i])
            /\ UNCHANGED ct_chunks
       ELSE /\ ct_chunks' = Append(ct_chunks, ct_current)
            /\ ct_current' = ct_paras[ct_i]
  /\ ct_i' = ct_i + 1
  /\ UNCHANGED <<ct_pc, ct_paras, ct_text, ct_max, ct_result, sumVars>>

\* lines 41-44: the loop is over
CtFlush ==
  /\ ct_pc = "for"
  /\ ct_i > Len(ct_paras)
  /\ ct_chunks' = IF ct_current # <<>> THEN Append(ct_chunks, ct_current)
                                       ELSE ct_chunks
  /\ ct_result' = ct_chunks'
  /\ ct_pc' = "returned"
  /\ UNCHANGED <<ct_paras, ct_i, ct_current, ct_text, ct_max, sumVars>>

NextSteps ==
  \/ CtSplit
  \/ CtIterate
  \/ CtFlush

\* a request being served, or chunk_text being run on its own
InitLive == Init \/ InitChunk

NextLive == Next \/ NextSteps

\* the handler and chunk_text keep running: every external call and every
\* sleep returns, and no statement blocks
SpecLive ==
  /\ InitLive
  /\ [][NextLive]_vars
  /\ WF_vars(Next)
  /\ WF_vars(NextSteps)

\* ======================================================== properties
\* ------------------------------------------------------- reading the log
Positions == DOMAIN log
CallsAt(site) == {i \in Positions : log[i].ev = "call" /\ log[i].site = site}
NumCalls(site) == Cardinality(CallsAt(site))
ChunkCallsOf(k) == {i \in CallsAt("chunk") : log[i].idx = k}
SleepsOf(k) == {i \in Positions : log[i].ev = "sleep" /\ log[i].idx = k}
AllSleeps == {i \in Positions : log[i].ev = "sleep"}
PartitionRuns == {i \in Positions : log[i].ev = "chunk_text"}
FailedReturns(site) ==
  {i \in Positions : log[i].ev = "return" /\ log[i].site = site /\ ~log[i].ok}
ReqText == GetText(data)
LastEv == log[Len(log)]

\* C1: a non-empty text of at most ONE_SHOT_THRESHOLD characters gets exactly
\* one external call (the one-shot call) and chunk_text is never run; a longer
\* text never gets the one-shot call and, when no chunk call failed, gets as
\* many chunk calls as chunk_text(text, MAX_CHARS) has segments.
C1_Routing ==
  ReqText # <<>> =>
    /\ Len(ReqText) <= ONE_SHOT_THRESHOLD =>
          /\ PartitionRuns = {}
          /\ NumCalls("chunk") = 0 /\ NumCalls("reduce") = 0
          /\ NumCalls("oneshot") <= 1
          /\ pc = "done" => NumCalls("oneshot") = 1
    /\ Len(ReqText) > ONE_SHOT_THRESHOLD =>
          /\ NumCalls("oneshot") = 0
          /\ (pc \in {"reduce_wait", "done"} /\ FailedReturns("chunk") = {}) =>
                NumCalls("chunk") = Len(chunk_text(ReqText, MAX_CHARS))

C1_Witness ==
  /\ pc = "done"
  /\ Len(ReqText) > ONE_SHOT_THRESHOLD
  /\ FailedReturns("chunk") = {}
  /\ NumCalls("chunk") = 3

\* C2 (as claimed): on the partitioned path a reduction call is made iff there
\* is more than one partial summary; one partial summary is returned as the
\* final summary without a reduction call; two or more get exactly one.
C2_ReductionOnlyForMany ==
  Len(ReqText) > ONE_SHOT_THRESHOLD =>
    /\ NumCalls("reduce") >= 1 => Len(chunk_summaries) > 1
    /\ (pc = "done" /\ FailedReturns("chunk") = {} /\ Len(chunk_summaries) = 1) =>
          response = Summary(chunk_summaries[1])
    /\ (pc = "done" /\ FailedReturns("chunk") = {} /\ Len(chunk_summaries) >= 2) =>
          NumCalls("reduce") = 1

\* C3: a chunk call that is rate limited on both attempts is attempted exactly
\* twice, with one 20-second sleep between the first failure and the second
\* attempt, and the request then ends with 429; there is no third attempt.
C3_RetryBound ==
  /\ \A k \in 1..Len(chunks) : Cardinality(ChunkCallsOf(k)) <= 2
  /\ \A i \in FailedReturns("chunk") :
        IsRateLimit(log[i].val) =>
          IF log[i].attempt = 0
            THEN /\ i < Len(log) => log[i + 1] = SleepEv(log[i].idx, 0, 20)
                 /\ i + 1 < Len(log) =>
                       /\ log[i + 2].ev = "call" /\ log[i + 2].site = "chunk"
                       /\ log[i + 2].idx = log[i].idx /\ log[i + 2].attempt = 1
            ELSE /\ i = Len(log) /\ pc = "done"
                 /\ response = Error(log[i].val, 429)
                 /\ Cardinality(ChunkCallsOf(log[i].idx)) = 2
                 /\ Cardinality(SleepsOf(log[i].idx)) = 1
                 /\ i >= 5 /\ log[i - 2].ev = "sleep" /\ log[i - 2].secs = 20
                 /\ log[i - 3].ev = "return" /\ ~log[i - 3].ok
                 /\ log[i - 3].idx = log[i].idx

C3_Witness ==
  /\ pc = "done"
  /\ response.status = 429
  /\ Len(log) > 5
  /\ LastEv.site = "chunk" /\ LastEv.attempt = 1 /\ LastEv.idx = 2
  /\ log[Len(log) - 3].ev = "return" /\ IsRateLimit(log[Len(log) - 3].val)

\* C4: once the call for chunk k has failed for good (a failure that is not
\* retried), nothing is called any more: no chunk after k, no reduction, and
\* the response is the error alone.
FinalFailure(i) == ~(IsRateLimit(log[i].val) /\ log[i].attempt = 0)

C4_ShortCircuit ==
  \A i \in FailedReturns("chunk") :
    FinalFailure(i) =>
      /\ i = Len(log) /\ pc = "done"
      /\ \A j \in CallsAt("chunk") : log[j].idx <= log[i].idx
      /\ NumCalls("reduce") = 0
      /\ response.key = "error" /\ response.val = log[i].val
      /\ response.status # 200

C4_Witness ==
  /\ pc = "done"
  /\ Len(chunks) = 3
  /\ Len(chunk_summaries) = 1
  /\ log # <<>>
  /\ LastEv.ev = "return" /\ LastEv.site = "chunk" /\ ~LastEv.ok /\ LastEv.idx = 2

\* C5 (as claimed): at every call site a failure that ends the request gives
\* 429 when its message contains "rate limit" (any case) and 500 otherwise,
\* with the message in the error field.
C5_StatusByClass ==
  (pc = "done" /\ log # <<>> /\ LastEv.ev = "return" /\ ~LastEv.ok) =>
    response = Error(LastEv.val, IF IsRateLimit(LastEv.val) THEN 429 ELSE 500)

\* C6: a request without text, or with the empty string, ends with 400 and
\* "No text provided"; no external call is made and chunk_text is not run.
C6_EmptyRejected ==
  ReqText = <<>> =>
    /\ log = <<>>
    /\ pc \in {"start", "done"}
    /\ pc = "done" => response = Error(NoTextProvided, 400)

C6_Witness ==
  pc = "done" /\ data.body = "object" /\ data.hasText /\ data.text = <<>>
    /\ response.status = 400

\* C7 (as claimed): for every non-empty text and every maxChars, joining the
\* segments of chunk_text with "\n\n" gives back the text.
C7_JoinReconstructs ==
  (ct_pc = "returned" /\ ct_text # <<>>) => Join(ct_result) = ct_text

\* C8: every segment is at most maxChars long unless it is one paragraph that
\* is itself longer; the segments longer than maxChars are exactly the
\* paragraphs longer than maxChars, whole and in order.
Oversized(s) == Len(s) > ct_max

C9_NoRetryOnOtherFailure ==
  \A i \in FailedReturns("chunk") :
    ~IsRateLimit(log[i].val) =>
      /\ i = Len(log) /\ pc = "done"
      /\ response = Error(log[i].val, 500)
      /\ log[i].attempt = 0 =>
            /\ Cardinality(ChunkCallsOf(log[i].idx)) = 1
            /\ SleepsOf(log[i].idx) = {}

C9_Witness ==
  /\ pc = "done"
  /\ response.status = 500
  /\ log # <<>>
  /\ LastEv.ev = "return" /\ LastEv.site = "chunk" /\ LastEv.idx = 2
  /\ LastEv.attempt = 0 /\ ~IsRateLimit(LastEv.val)

\* C10: the one-shot call and the reduction call are made at most once; a
\* failure of either, rate limit included, ends the request with no sleep and
\* no second attempt; a sleep only ever follows a failed chunk call.
C10_NoRetryOutsideChunks ==
  /\ NumCalls("oneshot") <= 1
  /\ NumCalls("reduce") <= 1
  /\ \A i \in FailedReturns("oneshot") \cup FailedReturns("reduce") :
        i = Len(log) /\ pc = "done" /\ response.key = "error"
  /\ \A i \in AllSleeps :
        i > 1 /\ log[i - 1].ev = "return" /\ log[i - 1].site = "chunk"

C10_Witness ==
  /\ pc = "done"
  /\ log # <<>>
  /\ LastEv.ev = "return" /\ LastEv.site = "oneshot" /\ ~LastEv.ok
  /\ IsRateLimit(LastEv.val)
  /\ NumCalls("oneshot") = 1

\* C11 (as claimed): the summary of a 200 response is the text of the final
\* external call (one-shot or reduction), character for character.
C11_SummaryVerbatim ==
  (pc = "done" /\ response.key = "summary") =>
    /\ LastEv.ev = "return" /\ LastEv.ok
    /\ response.val = LastEv.val

\* s is raw without the whitespace at its two ends
IsTrimOf(s, raw) ==
  \E i \in 1..(Len(raw) + 1) : \E j \in 0..Len(raw) :
    /\ s = SubSeq(raw, i, j)
    /\ \A k \in 1..(i - 1) : raw[k] \in Whitespace
    /\ \A k \in (j + 1)..Len(raw) : raw[k] \in Whitespace
    /\ s # <<>> => (s[1] \notin Whitespace /\ s[Len(s)] \notin Whitespace)

\* C11 (amended): the summary of a 200 response is the text of the final
\* external call (one-shot or reduction) with the whitespace at its two ends
\* removed, and is otherwise unchanged.
C11_SummaryTrimmed ==
  (pc = "done" /\ response.key = "summary") =>
    /\ response.status = 200
    /\ LastEv.ev = "return" /\ LastEv.ok
    /\ LastEv.site \in {"oneshot", "reduce"}
    /\ IsTrimOf(response.val, LastEv.val)

C11_Witness ==
  /\ pc = "done"
  /\ response.key = "summary"
  /\ LastEv.site = "reduce"
  /\ response.val # LastEv.val

\* C12 (as claimed): chunk_text never emits an empty segment, also when the
\* first paragraph does not fit while the buffer is still empty.
C12_NoEmptySegment ==
  ct_pc = "returned" => \A i \in DOMAIN ct_result : Len(ct_result[i]) >= 1

\* C13 (as claimed): whenever summarize has run the partitioning (non-empty
\* text longer than ONE_SHOT_THRESHOLD) there is at least one segment, also
\* for texts made of paragraph delimiters or newlines only.
C13_AtLeastOneSegment ==
  PartitionRuns # {} =>
    /\ ReqText # <<>> /\ Len(ReqText) > ONE_SHOT_THRESHOLD
    /\ Len(chunks) >= 1

\* C14: every request reaches a terminal state (a summary or an error),
\* whatever the external service answers, provided every call and every sleep
\* returns; chunk_text returns for every input, a paragraph longer than
\* max_chars included.
C14_Terminates ==
  /\ (pc = "start") ~> (pc = "done" /\ response.key \in {"summary", "error"})
  /\ (ct_pc = "call") ~> (ct_pc = "returned")

C14_Witness ==
  /\ ct_pc = "returned"
  /\ \E i \in DOMAIN ct_result : Len(ct_result[i]) > ct_max
  /\ Len(ct_paras) >= 2

\* the statement-by-statement run computes what chunk_text computes
StepsAgree == ct_pc = "returned" => ct_result = chunk_text(ct_text, ct_max)

\* C15: the external calls of one request are sequential and in segment
\* order: a call is answered before anything else happens, no call for a
\* segment is made before the previous segment has succeeded, nothing is
\* called during a sleep, and the reduction call comes only after every
\* segment has succeeded.
AllCalls == {i \in Positions : log[i].ev = "call"}
SucceededBefore(k, j) ==
  \E i \in 1..(j - 1) :
    log[i].ev = "return" /\ log[i].site = "chunk" /\ log[i].idx = k /\ log[i].ok

C15_Sequential ==
  /\ \A i \in AllCalls :
       i < Len(log) =>
         /\ log[i + 1].ev = "return" /\ log[i + 1].site = log[i].site
         /\ log[i + 1].idx = log[i].idx /\ log[i + 1].attempt = log[i].attempt
  /\ (pc \in {"oneshot_wait", "chunk_wait", "reduce_wait"}) <=>
       (log # <<>> /\ LastEv.ev = "call")
  /\ \A i \in CallsAt("chunk") : \A j \in CallsAt("chunk") :
       i < j => log[i].idx <= log[j].idx
  /\ \A j \in CallsAt("chunk") :
       log[j].idx > 1 => SucceededBefore(log[j].idx - 1, j)
  /\ pc = "sleeping" =>
       (LastEv.ev = "return" /\ LastEv.site = "chunk" /\ ~LastEv.ok)
  /\ \A j \in CallsAt("reduce") :
       /\ \A k \in 1..Len(chunks) : SucceededBefore(k, j)
       /\ \A i \in CallsAt("chunk") : i < j

C15_Witness ==
  /\ pc = "done"
  /\ NumCalls("reduce") = 1
  /\ Len(chunks) >= 2
  /\ AllSleeps # {}

\* C16: when the reduction call is issued, chunk_summaries has one entry per
\* segment, in segment order: entry k is the response text (as stored, i.e.
\* trimmed) of the one successful attempt for segment k; failed attempts add
\* nothing; the reduction input is the entries joined in that order.
OkReturnsOf(k) ==
  {i \in Positions : log[i].ev = "return" /\ log[i].site = "chunk"
                       /\ log[i].idx = k /\ log[i].ok}

C16_OneSummaryPerSegment ==
  \A j \in CallsAt("reduce") :
    /\ Len(chunks) = Len(chunk_text(ReqText, MAX_CHARS))
    /\ Len(chunk_summaries) = Len(chunks)
    /\ \A k \in 1..Len(chunks) :
         /\ Cardinality(OkReturnsOf(k)) = 1
         /\ \A i \in OkReturnsOf(k) :
              i < j /\ IsTrimOf(chunk_summaries[k], log[i].val)
    /\ log[j].arg = Join(chunk_summaries)

C16_Witness ==
  /\ pc = "reduce_wait"
  /\ Len(chunks) >= 2
  /\ chunk_summaries[1] # chunk_summaries[2]
  /\ FailedReturns("chunk") # {}

\* C17: the retry allowance belongs to the segment: every segment starts at
\* attempt 0 whatever happened to earlier segments, so with N segments there
\* are at most 2*N chunk calls and N sleeps, and every sleep stands between a
\* rate-limited first attempt and the second attempt of the same segment.
C17_RetryPerSegment ==
  /\ \A k \in 1..Len(chunks) :
       /\ Cardinality(ChunkCallsOf(k)) <= 2
       /\ Cardinality(SleepsOf(k)) <= 1
       /\ \A j \in ChunkCallsOf(k) :
            (\A i \in ChunkCallsOf(k) : j <= i) => log[j].attempt = 0
  /\ NumCalls("chunk") <= 2 * Len(chunks)
  /\ Cardinality(AllSleeps) <= Len(chunks)
  /\ \A i \in FailedReturns("chunk") :
       (IsRateLimit(log[i].val) /\ Cardinality(ChunkCallsOf(log[i].idx)) = 1) =>
         (i = Len(log) => pc = "sleeping")
  /\ \A i \in AllSleeps :
       /\ i > 1
       /\ log[i - 1].ev = "return" /\ log[i - 1].site = "chunk"
       /\ ~log[i - 1].ok /\ IsRateLimit(log[i - 1].val)
       /\ log[i - 1].attempt = 0 /\ log[i - 1].idx = log[i].idx
       /\ i < Len(log) =>
            /\ log[i + 1].ev = "call" /\ log[i + 1].site = "chunk"
            /\ log[i + 1].idx = log[i].idx /\ log[i + 1].attempt = 1

C17_Witness ==
  /\ pc = "done"
  /\ Len(chunks) = 2
  /\ NumCalls("chunk") = 4
  /\ SleepsOf(1) # {} /\ SleepsOf(2) # {}

\* C18: after a rate-limited first attempt the second attempt alone decides:
\* if it succeeds its text becomes the segment's partial summary and the
\* request goes on without an error; if it fails the response carries the
\* second failure's message, with 429 if that one is a rate limit and 500
\* otherwise.
SecondReturns ==
  {i \in Positions : log[i].ev = "return" /\ log[i].site = "chunk"
                       /\ log[i].attempt = 1}

C18_SecondAttemptDecides ==
  \A i \in SecondReturns :
    /\ i >= 5 /\ log[i - 3].ev = "return" /\ log[i - 3].idx = log[i].idx
    /\ ~log[i - 3].ok /\ IsRateLimit(log[i - 3].val)
    /\ IF log[i].ok
         THEN /\ Len(chunk_summaries) >= log[i].idx
              /\ IsTrimOf(chunk_summaries[log[i].idx], log[i].val)
              /\ i = Len(log) =>
                   (pc = "loop" /\ response = NoResponse /\ idx = log[i].idx + 1)
         ELSE /\ i = Len(log) /\ pc = "done"
              /\ response =
                   Error(log[i].val, IF IsRateLimit(log[i].val) THEN 429 ELSE 500)

C18_Witness ==
  /\ pc = "done"
  /\ response.status = 500
  /\ Len(log) >= 5
  /\ LastEv.ev = "return" /\ LastEv.site = "chunk" /\ LastEv.attempt = 1
  /\ ~LastEv.ok
  /\ log[Len(log) - 3].val # LastEv.val

====
